---- MODULE Spec2Model ----
(***************************************************************************)
(* Model of the real-time fan-out and message persistence pipeline of the  *)
(* WhatsApp backend:                                                       *)
(*   - app/ws/manager.py        WebSocketConnectionManager                 *)
(*   - app/main.py              websocket_endpoint                         *)
(*   - app/services/message_service.py   MessageService                    *)
(*   - app/services/template_service.py  TemplateService                   *)
(*   - app/services/whatsapp_handlers.py handle_message / handle_status    *)
(*   - app/models/message.py    Message table                              *)
(*   - app/api/v1/campaigns.py  create_broadcast / send_broadcast          *)
(*                                                                         *)
(* The specifications share the variables:                                 *)
(*   SpecWS      the connection registry and the sync-to-async bridge      *)
(*   SpecSave    save_incoming_message / save_outgoing_message             *)
(*   SpecStatus  saves and update_message_status                           *)
(*   SpecHandler deliveries of message webhooks to handle_message          *)
(*   SpecDB      every operation on the message table, one after another   *)
(*   SpecRace    saves interleaved between lookup and commit               *)
(*   SpecAck     the webhook handlers with an exception at any step        *)
(*   SpecReg     connect and disconnect on a registry of three sockets     *)
(*   SpecPhone   the two phone number conversions on short inputs          *)
(*   SpecTemplate  send_template_message over every template status        *)
(*   SpecValues  the values of the status column under status webhooks     *)
(*   SpecTenant  saves of one message_id by two tenants                    *)
(*   SpecEndpoint  SpecReg with every read loop coming to an end           *)
(*   SpecRetry   redeliveries of a text webhook and their auto-replies     *)
(*   SpecSend    send_text_message with every outcome of the vendor call   *)
(*   SpecCampaign  create_broadcast and the task send_broadcast            *)
(***************************************************************************)
EXTENDS Integers, Sequences, FiniteSets, TLC

VARIABLES
    active,     \* ws_manager.active: dict tenant_id -> set of sockets
    sock,       \* per socket: position of its websocket_endpoint coroutine
    calls,      \* per broadcast call: notify_clients_sync / notify_clients
    rows,       \* committed rows of table "messages", in id order
    last,       \* the last completed persistence operation and its result
    workers     \* concurrent _save_message calls (SpecRace)

vars == <<active, sock, calls, rows, last, workers>>

----------------------------------------------------------------------------
(* Bounds *)

NumSockets == 2
MaxCalls == 1

Tenants == {"t1", "t2"}
\* Sockets and calls are interchangeable: they are numbered in the order
\* in which they connect and are made.
Sockets == 1..NumSockets
Calls == 1..MaxCalls

\* Where a broadcast is called from:
\*   "async"  awaited directly on the event loop (notify_clients / broadcast)
\*   "worker" notify_clients_sync from a worker thread bound to the loop
\*   "loop"   notify_clients_sync from the thread running the event loop
\*   "plain"  notify_clients_sync from a thread with no loop at all
Kinds == {"async", "worker", "loop", "plain"}

----------------------------------------------------------------------------
(* Helpers *)

\* self.active = {}
EmptyDict == [k \in {} |-> {}]

\* dict.get(tenant_id, set())
ActiveGet(a, t) == IF t \in DOMAIN a THEN a[t] ELSE {}

\* the dict with key t bound to set S
DictPut(a, t, S) == [k \in (DOMAIN a) \cup {t} |-> IF k = t THEN S ELSE a[k]]

\* dict.pop(t, None)
DictPop(a, t) == [k \in (DOMAIN a) \ {t} |-> a[k]]

----------------------------------------------------------------------------
(* Connection registry: connect / disconnect *)

\* (mutant) connect also registers the socket in the bucket of the default
\* tenant
Register_AlsoDefault(a, t, ws) ==
    LET b == DictPut(a, t, ActiveGet(a, t) \cup {ws})
    IN DictPut(b, "t1", ActiveGet(b, "t1") \cup {ws})

\* (mutant) connect always starts a new bucket for the tenant
Register_NewBucket(a, t, ws) == DictPut(a, t, {ws})

\* manager.connect after a successful accept(): create the bucket, add
Register(a, t, ws) == DictPut(a, t, ActiveGet(a, t) \cup {ws})

\* manager.disconnect: discard the socket, drop the bucket when empty
Unregister(a, t, ws) ==
    IF t \in DOMAIN a
    THEN LET conns == a[t] \ {ws}
         IN IF conns = {} THEN DictPop(a, t) ELSE DictPut(a, t, conns)
    ELSE a

\* A notify_clients coroutine: `snap` is the list `connections`, `todo` the
\* part of it the for loop has not reached (list(set) fixes no order, so
\* the next socket is any of them), `attempts` counts the send_json calls
\* per socket, `stale` is the set of that name.  `atStart` and `raised`
\* are history: the tenant's registered sockets when the coroutine body
\* started, and the sockets whose send_json raised.
NoPass == [pc |-> "none", snap |-> {}, todo |-> {},
           attempts |-> [s \in Sockets |-> 0], stale |-> {}, exc |-> FALSE,
           atStart |-> {}, raised |-> {}]

IdleCall == [pc |-> "idle", kind |-> "async", tenant |-> "t1",
             started |-> 0, strat |-> <<>>, pass |-> NoPass]

\* a socket whose endpoint coroutine has ended (its tenant no longer matters)
ClosedSock == [st |-> "closed", tenant |-> "t1"]

\* (mutant) websocket_endpoint has no finally clause
EndpointFinally_Missing(a, t, ws) == a

\* websocket_endpoint, finally: ws_manager.disconnect(tenant_id, websocket)
EndpointFinally(a, t, ws) == Unregister(a, t, ws)

\* websocket_endpoint: await ws_manager.connect(tenant_id, websocket).
\* A failed accept() raises before registration; the endpoint's finally
\* clause then runs disconnect and the coroutine ends.
Connect(s, t, acceptOk) ==
    /\ sock[s].st = "new"
    /\ \A s2 \in Sockets : s2 < s => sock[s2].st # "new"
    /\ IF acceptOk
       THEN /\ active' = Register(active, t, s)
            /\ sock' = [sock EXCEPT ![s] = [st |-> "open", tenant |-> t]]
       ELSE /\ active' = EndpointFinally(active, t, s)
            /\ sock' = [sock EXCEPT ![s] = ClosedSock]
    /\ UNCHANGED <<calls, rows, last, workers>>

\* websocket_endpoint: the read loop breaks (client disconnect or error)
\* and the finally clause runs ws_manager.disconnect(tenant_id, websocket).
EndpointExit(s) ==
    /\ sock[s].st = "open"
    /\ active' = EndpointFinally(active, sock[s].tenant, s)
    /\ sock' = [sock EXCEPT ![s] = ClosedSock]
    /\ UNCHANGED <<calls, rows, last, workers>>

----------------------------------------------------------------------------
(* notify_clients: one broadcast pass *)

\* (mutant) a failed send ends the loop
OnSendRaise_StopsPass(p, ws) == [p EXCEPT !.stale = @ \cup {ws}, !.todo = {}]

\* (mutant) the failed socket is not marked stale
OnSendRaise_NotMarked(p, ws) == p

\* the `except Exception` around send_json: mark the socket stale and go on
OnSendRaise(p, ws) == [p EXCEPT !.stale = @ \cup {ws}]

\* (mutant) the emptied bucket is not popped
RemoveStale_KeepsEmpty(a, t, stale) ==
    IF stale # {} THEN DictPut(a, t, ActiveGet(a, t) \ stale) ELSE a

\* "remove stale connections" after the loop
RemoveStale(a, t, stale) ==
    IF stale # {}
    THEN LET alive == ActiveGet(a, t) \ stale
         IN IF alive = {} THEN DictPop(a, t) ELSE DictPut(a, t, alive)
    ELSE a

\* (mutant) the snapshot takes the sockets of every tenant
Snapshot_AllTenants(p, a, t) ==
    LET snap == UNION {a[k] : k \in DOMAIN a}
    IN IF snap = {} THEN [p EXCEPT !.pc = "done"]
       ELSE [p EXCEPT !.pc = "run", !.snap = snap, !.todo = snap]

\* connections = list(self.active.get(tenant_id, set())); with no
\* connection the coroutine returns at once.
Snapshot(p, a, t) ==
    LET snap == ActiveGet(a, t)
    IN IF snap = {} THEN [p EXCEPT !.pc = "done"]
       ELSE [p EXCEPT !.pc = "run", !.snap = snap, !.todo = snap]

\* A coroutine handed to a loop (strategies 1-3) starts running.
PassStart(c) ==
    /\ calls[c].pass.pc = "sched"
    /\ calls' = [calls EXCEPT ![c].pass =
                   [Snapshot(@, active, calls[c].tenant)
                      EXCEPT !.atStart = ActiveGet(active, calls[c].tenant)]]
    /\ UNCHANGED <<active, sock, rows, last, workers>>

\* One iteration of `for ws in connections`: await ws.send_json(...).
\* A socket whose endpoint has ended always raises; an open one may.
PassSend(c, ws, ok) ==
    /\ calls[c].pass.pc = "run"
    /\ ~calls[c].pass.exc
    /\ ws \in calls[c].pass.todo
    /\ LET p == calls[c].pass
           q == [p EXCEPT !.todo = @ \ {ws}, !.attempts[ws] = @ + 1]
       IN /\ ok => sock[ws].st = "open"
          /\ calls' = [calls EXCEPT ![c].pass =
                         IF ok THEN q
                         ELSE [OnSendRaise(q, ws)
                                 EXCEPT !.raised = @ \cup {ws}]]
    /\ UNCHANGED <<active, sock, rows, last, workers>>

\* the thread a coroutine started by a strategy runs on: strategy 3 runs
\* asyncio.run in a new daemon thread, the others use the event loop
ThreadOf(strategy) == IF strategy = 3 THEN "own_thread" ELSE "event_loop"

PassThread(call) ==
    IF call.strat = <<>> THEN "event_loop"
    ELSE ThreadOf(call.strat[Len(call.strat)])

\* The loop is over (or an exception escaped it): stale sockets are
\* removed and the coroutine returns.  On the event loop the block runs
\* without interruption.
PassCleanup(c) ==
    /\ calls[c].pass.pc = "run"
    /\ PassThread(calls[c]) = "event_loop"
    /\ calls[c].pass.todo = {} \/ calls[c].pass.exc
    /\ active' = IF calls[c].pass.exc THEN active
                 ELSE RemoveStale(active, calls[c].tenant, calls[c].pass.stale)
    /\ calls' = [calls EXCEPT ![c].pass.pc = "done"]
    /\ UNCHANGED <<sock, rows, last, workers>>

\* The same block on a thread of its own, where the event loop's connect
\* and disconnect can run between its statements: first the stale sockets
\* are discarded from the tenant's set and `if not alive` is evaluated ...
PassDiscard(c) ==
    /\ calls[c].pass.pc = "run"
    /\ PassThread(calls[c]) = "own_thread"
    /\ calls[c].pass.todo = {}
    /\ LET t == calls[c].tenant
           stale == calls[c].pass.stale
           alive == ActiveGet(active, t) \ stale
       IN IF stale = {}
          THEN /\ active' = active
               /\ calls' = [calls EXCEPT ![c].pass.pc = "done"]
          ELSE /\ active' = IF t \in DOMAIN active
                            THEN DictPut(active, t, alive) ELSE active
               /\ calls' = [calls EXCEPT ![c].pass.pc =
                              IF alive = {} THEN "popping" ELSE "done"]
    /\ UNCHANGED <<sock, rows, last, workers>>

\* ... then self.active.pop(tenant_id, None) drops the tenant's entry as
\* it is by then.
PassPop(c) ==
    /\ calls[c].pass.pc = "popping"
    /\ active' = DictPop(active, calls[c].tenant)
    /\ calls' = [calls EXCEPT ![c].pass.pc = "done"]
    /\ UNCHANGED <<sock, rows, last, workers>>

----------------------------------------------------------------------------
(* notify_clients_sync: the three dispatch strategies *)

\* Strategy 1, anyio.from_thread.run: what happens before the coroutine runs
Strategy1Result(kind, anyio) ==
    IF ~anyio THEN "ImportError"
    ELSE IF kind # "worker" THEN "RuntimeError"
    ELSE "started"

\* (mutant) only RuntimeError is caught: the outer `except Exception` is gone
AfterStrategy1_NoOuterExcept(res) ==
    CASE res = "ok" -> "return"
      [] res = "RuntimeError" -> "fallthrough"
      [] OTHER -> "raise"

\* (mutant) the `return` after a successful strategy 1 is missing
AfterStrategy1_NoReturn(res) == "fallthrough"

\* What the try/except blocks around strategy 1 do with its result
AfterStrategy1(res) ==
    CASE res = "ok" -> "return"
      [] res = "RuntimeError" -> "fallthrough"
      [] OTHER -> "fallthrough"

\* asyncio.get_running_loop() succeeds only on the loop's own thread
FallbackStrategy(kind) == IF kind = "loop" THEN 2 ELSE 3

\* (mutant) anyio.from_thread.run hands the coroutine over and comes back
Waits_Never(strategy) == FALSE

\* whether the caller is held until the coroutine has finished: a direct
\* await (0) and anyio.from_thread.run (1) are; create_task (2) and
\* Thread.start (3) come back at once
Waits(strategy) == strategy \in {0, 1}

\* a notify_clients coroutine is created and handed to a loop
StartPass(call, strategy) ==
    [call EXCEPT !.started = @ + 1, !.strat = Append(@, strategy),
                 !.pass = [NoPass EXCEPT !.pc = "sched"],
                 !.pc = IF Waits(strategy) THEN "blocked" ELSE "returned"]

\* the rest of notify_clients_sync once strategy 1 has ended with `res`
Dispatch(call, res) ==
    LET d == AfterStrategy1(res)
    IN CASE d = "return" -> [call EXCEPT !.pc = "returned"]
         [] d = "fallthrough" ->
              StartPass(call, FallbackStrategy(call.kind))
         [] OTHER -> [call EXCEPT !.pc = "raised"]

\* notify_clients_sync(tenant_id, payload) is called
NotifySync(c, t, kind, anyio) ==
    /\ calls[c].pc = "idle"
    /\ \A c2 \in Calls : c2 < c => calls[c2].pc # "idle"
    /\ kind # "async"
    /\ LET base == [IdleCall EXCEPT !.kind = kind, !.tenant = t]
           res == Strategy1Result(kind, anyio)
       IN calls' = [calls EXCEPT ![c] =
                      IF res = "started"
                      THEN StartPass(base, 1)
                      ELSE Dispatch(base, res)]
    /\ UNCHANGED <<active, sock, rows, last, workers>>

\* await ws_manager.notify_clients(tenant_id, payload) from async code:
\* the coroutine body runs at once, up to its first send.
NotifyAsync(c, t) ==
    /\ calls[c].pc = "idle"
    /\ \A c2 \in Calls : c2 < c => calls[c2].pc # "idle"
    /\ calls' = [calls EXCEPT ![c] =
                   [StartPass([IdleCall EXCEPT !.tenant = t], 0)
                      EXCEPT !.pass = [Snapshot(@, active, t)
                                     EXCEPT !.atStart = ActiveGet(active, t)]]]
    /\ UNCHANGED <<active, sock, rows, last, workers>>

\* The caller waiting for the coroutine (strategy 1, or a direct await)
\* gets its result.
CallResume(c) ==
    /\ calls[c].pc = "blocked"
    /\ calls[c].pass.pc = "done"
    /\ LET call == calls[c]
           res == IF call.pass.exc THEN "Exception" ELSE "ok"
       IN calls' = [calls EXCEPT ![c] =
                      IF call.kind = "async"
                      THEN [call EXCEPT !.pc = IF res = "ok" THEN "returned"
                                               ELSE "raised"]
                      ELSE Dispatch(call, res)]
    /\ UNCHANGED <<active, sock, rows, last, workers>>

----------------------------------------------------------------------------
(* Table "messages" and MessageService *)

MaxRows == 2

\* Python None / SQL NULL for message_id
NULL == "NULL"

\* message ids seen by the service: None, the empty string, vendor ids
MsgIds == {NULL, "", "wamid.A"}

Texts == {"hi", "/poll"}

\* the (phone, text) arguments the direct saves are tried with; phone
\* numbers are character sequences, as received
Payloads == {<<<<"9">>, "hi">>, <<<<" ", "+", "8", " ">>, "/poll">>}

\* the sender and recipient of the handlers and send operations
Phone1 == <<"9">>

\* statuses delivered by status webhooks
StatusUpdates == {"delivered", "read"}

\* the members of the SDK's status enumeration, as status webhooks carry
\* them
SdkStatuses == {"sent", "delivered", "read", "failed"}

\* app/core/config.py: the tenant every webhook is attributed to
DEFAULT_TENANT_ID == "t1"

\* what the vendor's send call does: it raises, or its response gives an id
VendorResults == {"raise"} \cup MsgIds

\* results of an operation: a row id (>= 1), None, or an exception
NONE == 0
RAISED == 0 - 1

\* Python truthiness of an Optional[str]
Truthy(x) == x # NULL /\ x # ""

RECURSIVE LStrip(_)
LStrip(p) == IF p # <<>> /\ Head(p) = " " THEN LStrip(Tail(p)) ELSE p

RECURSIVE RStrip(_)
RStrip(p) ==
    IF p # <<>> /\ p[Len(p)] = " " THEN RStrip(SubSeq(p, 1, Len(p) - 1))
    ELSE p

\* str.strip()
Strip(p) == RStrip(LStrip(p))

\* (mutant) the input is not stripped
NormalizePhone_NoStrip(p) ==
    IF p = <<>> THEN p
    ELSE IF p[1] = "+" THEN p ELSE <<"+">> \o p

\* _normalize_phone
NormalizePhone(p) ==
    IF p = <<>> THEN p
    ELSE LET q == Strip(p)
         IN IF q # <<>> /\ q[1] = "+" THEN q ELSE <<"+">> \o q

\* format_phone_number
FormatPhoneNumber(p) ==
    IF p = <<>> THEN p
    ELSE LET q == Strip(p)
         IN IF q # <<>> /\ q[1] = "+" THEN q ELSE <<"+">> \o q

\* (mutant) column `status` has no default
MsgRow_NoDefault(t, mid, phone, text, dir) ==
    [tenant |-> t, mid |-> mid, phone |-> phone, text |-> text,
     dir |-> dir, status |-> NULL]

\* Message(...): column `status` defaults to 'sent'
MsgRow(t, mid, phone, text, dir) ==
    [tenant |-> t, mid |-> mid, phone |-> phone, text |-> text,
     dir |-> dir, status |-> "sent"]

\* db.query(Message).filter(message_id == mid, tenant_id == t): the ids of
\* the matching rows (comparison with None is IS NULL)
Matches(rs, t, mid) ==
    {i \in 1..Len(rs) : rs[i].tenant = t /\ rs[i].mid = mid}

\* (mutant) the lookup has no `if message_id:` guard
DedupLookup_MatchesNull(rs, t, mid) == Matches(rs, t, mid)

\* (mutant) the column carries no unique constraint
UniqueViolation_Off(rs, mid) == FALSE

\* message_id = Column(String(255), unique=True, nullable=True): an insert
\* of a non-NULL message_id that some row already carries is rejected
UniqueViolation(rs, mid) ==
    mid # NULL /\ \E i \in 1..Len(rs) : rs[i].mid = mid

\* _save_message: "Avoid duplicate inserts on webhook retries"
DedupLookup(rs, t, mid) == IF Truthy(mid) THEN Matches(rs, t, mid) ELSE {}

\* (mutant) the failed row is kept and the error is swallowed
SaveFailed_Swallowed(rs, row) ==
    [rows |-> Append(rs, row), res |-> NONE, commit |-> "failed"]

\* _save_message, except branch: db.rollback(); raise
SaveFailed(rs, row) == [rows |-> rs, res |-> RAISED, commit |-> "failed"]

\* (mutant) the commit does not check the unique constraint
InsertCommit_NoConstraint(rs, row, commitOk) ==
    IF commitOk
    THEN [rows |-> Append(rs, row), res |-> Len(rs) + 1, commit |-> "ok"]
    ELSE SaveFailed(rs, row)

\* db.add(message); db.commit(); db.refresh(message) and the except branch
InsertCommit(rs, row, commitOk) ==
    IF commitOk /\ ~UniqueViolation(rs, row.mid)
    THEN [rows |-> Append(rs, row), res |-> Len(rs) + 1, commit |-> "ok"]
    ELSE SaveFailed(rs, row)

\* _save_message
SaveMessage(rs, t, mid, phone, text, dir, commitOk) ==
    LET existing == DedupLookup(rs, t, mid)
        row == MsgRow(t, mid, NormalizePhone(phone), text, dir)
    IN IF existing # {}
       THEN [rows |-> rs, res |-> CHOOSE i \in existing : TRUE,
             commit |-> "none"]
       ELSE InsertCommit(rs, row, commitOk)

\* (mutant) the incoming save stores the wrong direction
SaveIncomingMessage_WrongDirection(rs, t, mid, phone, text, commitOk) ==
    SaveMessage(rs, t, mid, phone, text, "outgoing", commitOk)

\* save_incoming_message
SaveIncomingMessage(rs, t, mid, phone, text, commitOk) ==
    SaveMessage(rs, t, mid, phone, text, "incoming", commitOk)

\* save_outgoing_message
SaveOutgoingMessage(rs, t, mid, phone, text, commitOk) ==
    SaveMessage(rs, t, mid, phone, text, "outgoing", commitOk)

\* A campaign and its background task send_broadcast.  `recipients` are
\* the phones given to the task, `idx` the position of its loop, `results`,
\* `sent`, `failed` its local variables, `called` the recipients a send
\* operation was called for, `poisoned` whether the session is left
\* needing a rollback; total_recipients, sent_count, failed_count and
\* stored_results are the columns of the campaign row.
NoCampaign == [pc |-> "none", template |-> FALSE, recipients |-> <<>>,
               idx |-> 1, results |-> <<>>, sent |-> 0, failed |-> 0,
               called |-> <<>>, poisoned |-> FALSE, total_recipients |-> 0,
               sent_count |-> 0, failed_count |-> 0, stored_results |-> <<>>]

\* History of the last operation.  `hit`: a row with the operation's
\* (tenant, message_id) existed when it started; `changed`: it changed the
\* table; `stored`: it inserted a row for its message; `again`: the
\* operation before it was of the same family with the same key and ended
\* with a row (prevRes, prevStored are that operation's res and stored).
\* `raised`: the steps of a webhook handler that raised; `outcome`: how the
\* handler ended for the SDK that called it.
\* For a registry operation (SpecReg) `ws` is its socket, `before` the
\* registry it started from, and prevOp, prevWs, prevTenant, before2 are
\* op, ws, tenant, before of the registry operation ahead of it.
\* For a template send (SpecTemplate) `tpl` is what the template lookup
\* found, `sentWa` whether the vendor was called, `usage` the committed
\* change of usage_count and `logged` whether a send log was committed.
\* For a phone conversion (SpecPhone) `phone` is the input, `out` the
\* result and `out2` the result of converting `out` again.
\* `foreign`: when the operation started, a row of another tenant carried
\* its message_id.
\* `camp` is the campaign of SpecCampaign.
\* `vendor`: how the vendor call of a send ended ("no_client" when none
\* is configured).
\* A specification records the fields named in its view and leaves the
\* others at their defaults.
NoOp == [op |-> "none", tenant |-> "t1", mid |-> NULL, phone |-> <<>>,
         status |-> "sent", oldStatus |-> "sent", res |-> NONE,
         commit |-> "none", hit |-> FALSE, changed |-> FALSE,
         stored |-> FALSE, again |-> FALSE, prevRes |-> NONE,
         prevStored |-> FALSE, bcasts |-> <<>>, raised |-> {},
         outcome |-> "none", ws |-> 0, prevOp |-> "none", prevWs |-> 0,
         prevTenant |-> "t1", before |-> EmptyDict, before2 |-> EmptyDict,
         out |-> <<>>, out2 |-> <<>>, tpl |-> "none", sentWa |-> FALSE,
         usage |-> 0, logged |-> FALSE, foreign |-> FALSE,
         vendor |-> "none", camp |-> NoCampaign]

SaveOps == {"save_incoming", "save_outgoing"}

Project(rec, view) ==
    [f \in DOMAIN NoOp |-> IF f \in view THEN rec[f] ELSE NoOp[f]]

HasRow(rs, t, mid) == \E i \in 1..Len(rs) : rs[i].tenant = t /\ rs[i].mid = mid

\* the history record of a save-like operation with result r
SaveRecord(op, t, mid, phone, r, fam, sameSender, view) ==
    LET again == /\ last.op \in fam
                 /\ last.tenant = t /\ last.mid = mid
                 /\ sameSender => last.phone = phone
                 /\ last.res >= 1
    IN Project([NoOp EXCEPT
                  !.op = op, !.tenant = t, !.mid = mid, !.phone = phone,
                  !.res = r.res, !.commit = r.commit,
                  !.hit = HasRow(rows, t, mid),
                  !.foreign = (\E u \in Tenants \ {t} : HasRow(rows, u, mid)),
                  !.changed = (r.rows # rows),
                  !.stored = (r.commit = "ok"),
                  !.again = again,
                  !.prevRes = IF again THEN last.res ELSE NONE,
                  !.prevStored = (again /\ last.stored)], view)

\* a direct call of save_incoming_message
SaveIncoming(t, mid, phone, text, commitOk, view) ==
    LET r == SaveIncomingMessage(rows, t, mid, phone, text, commitOk)
    IN /\ Len(r.rows) <= MaxRows
       /\ rows' = r.rows
       /\ last' = SaveRecord("save_incoming", t, mid, NormalizePhone(phone),
                             r, SaveOps, FALSE, view)
       /\ UNCHANGED <<active, sock, calls, workers>>

\* a direct call of save_outgoing_message
SaveOutgoing(t, mid, phone, text, commitOk, view) ==
    LET r == SaveOutgoingMessage(rows, t, mid, phone, text, commitOk)
    IN /\ Len(r.rows) <= MaxRows
       /\ rows' = r.rows
       /\ last' = SaveRecord("save_outgoing", t, mid, NormalizePhone(phone),
                             r, SaveOps, FALSE, view)
       /\ UNCHANGED <<active, sock, calls, workers>>

\* (mutant) the exception of the vendor call is logged and the message is
\* stored without an id
VendorRaised_Swallowed(rs, t, phone, text) ==
    [rows |-> Append(rs, MsgRow(t, NULL, NormalizePhone(phone), text,
                                "outgoing")),
     res |-> Len(rs) + 1, commit |-> "ok", mid |-> NULL]

\* the send operations, `except Exception: log; raise` around the vendor
\* call: _save_message is not reached
VendorRaised(rs, t, phone, text) ==
    [rows |-> rs, res |-> RAISED, commit |-> "none", mid |-> NULL]

\* send_text_message: the vendor call (when a client is configured), then
\* _save_message with the vendor's message id.  vendor is "raise" or the id
\* taken from the response.
SendTextMessage(rs, t, phone, text, wa, vendor, commitOk) ==
    IF wa /\ vendor = "raise"
    THEN VendorRaised(rs, t, phone, text)
    ELSE LET mid == IF wa THEN vendor ELSE NULL
             r == SaveMessage(rs, t, mid, NormalizePhone(phone), text,
                              "outgoing", commitOk)
         IN [rows |-> r.rows, res |-> r.res, commit |-> r.commit,
             mid |-> mid]

SendText(t, phone, text, wa, vendor, commitOk, view) ==
    LET r == SendTextMessage(rows, t, phone, text, wa, vendor, commitOk)
    IN /\ Len(r.rows) <= MaxRows
       /\ rows' = r.rows
       /\ last' = [SaveRecord("send_text", t, r.mid, NormalizePhone(phone),
                              r, {"send_text"}, FALSE, view)
                     EXCEPT !.vendor = IF "vendor" \notin view THEN "none"
                                       ELSE IF ~wa THEN "no_client"
                                       ELSE IF vendor = "raise" THEN "raised"
                                       ELSE "returned"]
       /\ UNCHANGED <<active, sock, calls, workers>>

\* TemplateSendRequest.validate_phone: '+', ' ' and '-' are taken out of
\* `to` before the service sees it
CleanTo(p) == SelectSeq(p, LAMBDA ch : ch \notin {"+", " ", "-"})

\* _save_template_message: no lookup, the phone is stored as given, a
\* failed commit is logged and swallowed
SaveTemplateMessage(rs, t, phone, mid, commitOk) ==
    LET row == MsgRow(t, mid, phone, "Template", "outgoing")
    IN IF commitOk /\ ~UniqueViolation(rs, mid)
       THEN [rows |-> Append(rs, row), res |-> NONE, commit |-> "ok"]
       ELSE [rows |-> rs, res |-> NONE, commit |-> "failed"]

\* what get_template_by_name finds for (tenant, name, language): no
\* template, or a template in one of the states of TemplateStatus
TemplateStates == {"missing", "PENDING", "APPROVED", "REJECTED", "PAUSED",
                   "DISABLED"}

\* (mutant) the status of the template is not checked
TemplateGate_NoStatusCheck(tpl) ==
    IF tpl = "missing" THEN "not_found" ELSE "ok"

\* send_template: the two ValueErrors ahead of the send
TemplateGate(tpl) ==
    IF tpl = "missing" THEN "not_found"
    ELSE IF tpl # "APPROVED" THEN "not_approved"
    ELSE "ok"

\* TemplateService.send_template as far as table "messages" goes: a
\* missing or unapproved template raises; without a client or when the
\* vendor call raises nothing is saved.  After a failed commit of the
\* message the session was not rolled back, and the commit of the send log
\* raises.
SendTemplateMessage(rs, t, phone, tpl, wa, vendor, commitOk) ==
    IF TemplateGate(tpl) # "ok"
    THEN [rows |-> rs, res |-> RAISED, commit |-> "none"]
    ELSE IF ~wa \/ vendor = "raise"
    THEN [rows |-> rs, res |-> NONE, commit |-> "none"]
    ELSE LET r == SaveTemplateMessage(rs, t, phone,
                                      IF Truthy(vendor) THEN vendor ELSE NULL,
                                      commitOk)
         IN IF r.commit = "failed" THEN [r EXCEPT !.res = RAISED] ELSE r

SendTemplate(t, phone, tpl, wa, vendor, commitOk, view) ==
    LET to == CleanTo(phone)
        r == SendTemplateMessage(rows, t, to, tpl, wa, vendor, commitOk)
        mid == IF wa /\ Truthy(vendor) THEN vendor ELSE NULL
    IN /\ Len(r.rows) <= MaxRows
       /\ rows' = r.rows
       /\ last' = SaveRecord("send_template", t, mid, to, r,
                             {"send_template"}, FALSE, view)
       /\ UNCHANGED <<active, sock, calls, workers>>

\* TemplateService.send_template with its other writes: the vendor call,
\* usage_count (committed with the message row) and the send log (not
\* committed when the session is left failed or when its own commit fails)
TemplateSend(t, phone, tpl, wa, vendor, commitOk, logOk, view) ==
    LET r == SendTemplateMessage(rows, t, CleanTo(phone), tpl, wa, vendor,
                                 commitOk)
        gate == TemplateGate(tpl)
        called == gate = "ok" /\ wa
        logCommit == gate = "ok" /\ r.commit # "failed" /\ logOk
    IN /\ Len(r.rows) <= MaxRows
       /\ rows' = r.rows
       /\ last' = Project([NoOp EXCEPT
                             !.op = "send_template", !.tenant = t,
                             !.tpl = tpl,
                             !.res = IF gate = "ok" /\ ~logCommit THEN RAISED
                                     ELSE r.res,
                             !.commit = r.commit,
                             !.changed = (r.rows # rows),
                             !.sentWa = called,
                             !.usage = IF r.commit = "ok" THEN 1 ELSE 0,
                             !.logged = logCommit], view)
       /\ UNCHANGED <<active, sock, calls, workers>>

\* (mutant) a status never moves backwards in sent < delivered < read
ApplyStatus_Monotone(old, new) ==
    LET rank(st) == CASE st = "sent" -> 1 [] st = "delivered" -> 2
                      [] st = "read" -> 3 [] OTHER -> 4
    IN IF rank(new) >= rank(old) THEN new ELSE old

\* message.status = status
ApplyStatus(old, new) == new

\* (mutant) an unknown message is created by the status update
UpdateMessageStatus_Upsert(rs, t, mid, status, commitOk, pick) ==
    IF Matches(rs, t, mid) = {}
    THEN [rows |-> Append(rs, [MsgRow(t, mid, <<>>, "", "outgoing")
                                 EXCEPT !.status = status]),
          res |-> Len(rs) + 1]
    ELSE [rows |-> [rs EXCEPT ![pick].status = status], res |-> pick]

\* update_message_status; `pick` is the row .first() returns
UpdateMessageStatus(rs, t, mid, status, commitOk, pick) ==
    IF Matches(rs, t, mid) = {}
    THEN [rows |-> rs, res |-> NONE]
    ELSE IF commitOk
    THEN [rows |-> [rs EXCEPT ![pick].status = ApplyStatus(@, status)],
          res |-> pick]
    ELSE [rows |-> rs, res |-> NONE]

\* a call of update_message_status
UpdateStatus(t, mid, status, commitOk, pick, view) ==
    /\ \/ pick \in Matches(rows, t, mid)
       \/ pick = 0 /\ Matches(rows, t, mid) = {}
    /\ LET r == UpdateMessageStatus(rows, t, mid, status, commitOk, pick)
       IN /\ Len(r.rows) <= MaxRows
          /\ rows' = r.rows
          /\ last' = Project([NoOp EXCEPT
                                !.op = "update_status", !.tenant = t,
                                !.mid = mid, !.status = status,
                                !.oldStatus = IF pick >= 1
                                              THEN rows[pick].status
                                              ELSE "sent",
                                !.res = r.res,
                                !.hit = HasRow(rows, t, mid),
                                !.changed = (r.rows # rows)], view)
    /\ UNCHANGED <<active, sock, calls, workers>>

\* handle_message, auto-reply: the reply text, NULL for "/poll" (which
\* replies through the vendor only and returns)
AutoReply(text) == IF text = "/poll" THEN NULL ELSE "hello"

\* (mutant) only a newly inserted message is broadcast
IncomingBroadcast_OnlyWhenInserted(saved) ==
    IF saved.commit = "ok" THEN <<"message_incoming">> ELSE <<>>

\* handle_message: the broadcast that follows the save, whatever the save
\* returned or raised
IncomingBroadcast(saved) == <<"message_incoming">>

\* handle_message: the incoming save (exceptions caught), the broadcast,
\* then for a text message the auto-reply, its save with message_id None
\* and its broadcast.
HandleMessageResult(rs, phone, mid, isText, text, commitOk, replyOk, commitOk2) ==
    LET t == DEFAULT_TENANT_ID
        fp == FormatPhoneNumber(phone)
        r1 == SaveIncomingMessage(rs, t, mid, fp, text, commitOk)
        replies == isText /\ AutoReply(text) # NULL /\ replyOk
        r2 == SaveOutgoingMessage(r1.rows, t, NULL, fp, AutoReply(text),
                                  commitOk2)
    IN IF phone = <<>>
       THEN [rows |-> rs, res |-> NONE, commit |-> "none", bcasts |-> <<>>]
       ELSE IF replies
       THEN [rows |-> r2.rows, res |-> r1.res, commit |-> r1.commit,
             bcasts |-> IncomingBroadcast(r1) \o
                        (IF r2.res >= 1 THEN <<"message_outgoing">>
                         ELSE <<>>)]
       ELSE [rows |-> r1.rows, res |-> r1.res, commit |-> r1.commit,
             bcasts |-> IncomingBroadcast(r1)]

\* one delivery of a message webhook, on a table of at most maxLen rows
Delivery(w, view, maxLen) ==
    LET r == HandleMessageResult(rows, w.phone, w.mid, w.isText, w.text,
                                 w.commitOk, w.replyOk, w.commitOk2)
        rec == SaveRecord("handle_message", DEFAULT_TENANT_ID, w.mid,
                          FormatPhoneNumber(w.phone), r, {"handle_message"},
                          TRUE, DOMAIN NoOp)
    IN /\ Len(r.rows) <= maxLen
       /\ rows' = r.rows
       /\ last' = Project([rec EXCEPT !.bcasts = r.bcasts], view)
       /\ UNCHANGED <<active, sock, calls, workers>>

\* one delivery of a message webhook
HandleMessage(phone, mid, isText, text, commitOk, replyOk, commitOk2, view) ==
    Delivery([phone |-> phone, mid |-> mid, isText |-> isText, text |-> text,
              commitOk |-> commitOk, replyOk |-> replyOk,
              commitOk2 |-> commitOk2], view, MaxRows)

\* the rows that deliveries of one text webhook and their auto-replies are
\* followed over
MaxRetryRows == 3

\* a text message "hi" from Phone1 is delivered, for the first time or
\* again
Redeliver(mid, commitOk, replyOk, commitOk2, view) ==
    Delivery([phone |-> Phone1, mid |-> mid, isText |-> TRUE, text |-> "hi",
              commitOk |-> commitOk, replyOk |-> replyOk,
              commitOk2 |-> commitOk2], view, MaxRetryRows)

----------------------------------------------------------------------------
(* Campaigns: create_broadcast and the background task send_broadcast *)

MaxRecipients == 2

\* resolve_recipients returns distinct phones: '+9', '+99', ...
RecipientPhone(i) == <<"+">> \o [j \in 1..i |-> "9"]

\* results.append({"phone": ..., "status": ...}) and the counter of that
\* status; the loop goes on to the next recipient
RecipientResult(c, phone, status) ==
    [c EXCEPT !.results = Append(@, [phone |-> phone, status |-> status]),
              !.sent = IF status = "sent" THEN @ + 1 ELSE @,
              !.failed = IF status = "failed" THEN @ + 1 ELSE @,
              !.idx = @ + 1]

\* (mutant) the try/except is around the loop: the first exception ends it
OnRecipientError_Stops(c, phone) ==
    [RecipientResult(c, phone, "failed")
       EXCEPT !.idx = Len(c.recipients) + 1]

\* send_broadcast, `except Exception` inside the loop
OnRecipientError(c, phone) == RecipientResult(c, phone, "failed")

\* create_broadcast: the campaign row is committed with total_recipients
\* and the task is started with the resolved phones (at least one)
CreateBroadcast(n, isTemplate) ==
    /\ last.camp.pc = "none"
    /\ last' = [NoOp EXCEPT
                  !.op = "campaign",
                  !.camp = [NoCampaign EXCEPT
                              !.pc = "running", !.template = isTemplate,
                              !.recipients = [i \in 1..n |-> RecipientPhone(i)],
                              !.total_recipients = n]]
    /\ UNCHANGED <<active, sock, calls, rows, workers>>

\* send_broadcast, text branch: one turn of the loop
BroadcastText(wa, vendor, commitOk) ==
    LET c == last.camp
        phone == c.recipients[c.idx]
        r == SendTextMessage(rows, DEFAULT_TENANT_ID, phone, "hi", wa, vendor,
                             commitOk)
        c1 == [c EXCEPT !.called = Append(@, phone)]
    IN /\ c.pc = "running" /\ ~c.template
       /\ c.idx <= Len(c.recipients)
       /\ rows' = r.rows
       /\ last' = [last EXCEPT !.camp =
                     IF r.res = RAISED THEN OnRecipientError(c1, phone)
                     ELSE RecipientResult(c1, phone, "sent")]
       /\ UNCHANGED <<active, sock, calls, workers>>

\* send_broadcast, template branch: one turn of the loop.  On a session
\* left needing a rollback the template lookup of send_template raises.
\* A failed commit of the message row or of the send log leaves the
\* session in that state.
BroadcastTemplate(tpl, wa, vendor, commitOk, logOk) ==
    LET c == last.camp
        phone == c.recipients[c.idx]
        c1 == [c EXCEPT !.called = Append(@, phone)]
        delivered == wa /\ vendor # "raise"
        msgId == IF delivered /\ Truthy(vendor) THEN vendor ELSE NULL
        r == IF c.poisoned \/ TemplateGate(tpl) # "ok" \/ ~delivered
             THEN [rows |-> rows, res |-> NONE, commit |-> "none"]
             ELSE SaveTemplateMessage(rows, DEFAULT_TENANT_ID, CleanTo(phone),
                                      msgId, commitOk)
        raised == \/ c.poisoned
                  \/ TemplateGate(tpl) # "ok"
                  \/ r.commit = "failed"
                  \/ ~logOk
        spoiled == /\ ~c.poisoned /\ TemplateGate(tpl) = "ok"
                   /\ (r.commit = "failed" \/ ~logOk)
    IN /\ c.pc = "running" /\ c.template
       /\ c.idx <= Len(c.recipients)
       /\ rows' = r.rows
       /\ last' = [last EXCEPT !.camp =
                     IF raised
                     THEN [OnRecipientError(c1, phone)
                             EXCEPT !.poisoned = c.poisoned \/ spoiled]
                     ELSE RecipientResult(c1, phone,
                                          IF msgId # NULL THEN "sent"
                                          ELSE "failed")]
       /\ UNCHANGED <<active, sock, calls, workers>>

\* send_broadcast after the loop: the campaign is looked up and, when
\* found, updated and committed; a query on a session needing a rollback
\* and a failed commit raise out of the task
BroadcastFinish(found, commitOk) ==
    LET c == last.camp
    IN /\ c.pc = "running"
       /\ c.idx > Len(c.recipients)
       /\ last' = [last EXCEPT !.camp =
                     IF c.poisoned \/ (found /\ ~commitOk)
                     THEN [c EXCEPT !.pc = "raised"]
                     ELSE IF ~found THEN [c EXCEPT !.pc = "returned"]
                     ELSE [c EXCEPT !.pc = "returned",
                                    !.sent_count = c.sent,
                                    !.failed_count = c.failed,
                                    !.stored_results = c.results]]
       /\ UNCHANGED <<active, sock, calls, rows, workers>>

----------------------------------------------------------------------------
(* The phone conversions applied to every short input *)

MaxPhoneLen == 3
PhoneChars == {" ", "+", "9"}

\* the strings given to the conversions (None and '' are both <<>>)
PhoneInputs == UNION {[1..n -> PhoneChars] : n \in 0..MaxPhoneLen}

\* _normalize_phone(p), then _normalize_phone of its result
ApplyNormalize ==
    /\ \/ /\ last.op = "none"
          /\ last' = [last EXCEPT !.op = "normalize",
                                  !.out = NormalizePhone(last.phone)]
       \/ /\ last.op = "normalize"
          /\ last' = [last EXCEPT !.op = "normalize_twice",
                                  !.out2 = NormalizePhone(last.out)]
    /\ UNCHANGED <<active, sock, calls, rows, workers>>

\* format_phone_number(p), then format_phone_number of its result
ApplyFormat ==
    /\ \/ /\ last.op = "none"
          /\ last' = [last EXCEPT !.op = "format",
                                  !.out = FormatPhoneNumber(last.phone)]
       \/ /\ last.op = "format"
          /\ last' = [last EXCEPT !.op = "format_twice",
                                  !.out2 = FormatPhoneNumber(last.out)]
    /\ UNCHANGED <<active, sock, calls, rows, workers>>

----------------------------------------------------------------------------
(* The registry on its own: connect and disconnect with their history *)

NumRegSockets == 3
RegSockets == 1..NumRegSockets

\* the history record of a registry operation
RegRecord(op, t, s) ==
    [NoOp EXCEPT !.op = op, !.tenant = t, !.ws = s, !.before = active,
                 !.prevOp = last.op, !.prevWs = last.ws,
                 !.prevTenant = last.tenant, !.before2 = last.before]

\* websocket_endpoint: await ws_manager.connect(tenant_id, websocket); a
\* failed accept() raises before registration and the finally clause runs
\* disconnect.
RegConnect(s, t, acceptOk) ==
    /\ sock[s].st = "new"
    /\ \A s2 \in DOMAIN sock : s2 < s => sock[s2].st # "new"
    /\ IF acceptOk
       THEN /\ active' = Register(active, t, s)
            /\ sock' = [sock EXCEPT ![s] = [st |-> "open", tenant |-> t]]
            /\ last' = RegRecord("connect", t, s)
       ELSE /\ active' = EndpointFinally(active, t, s)
            /\ sock' = [sock EXCEPT ![s] = ClosedSock]
            /\ last' = RegRecord("disconnect", t, s)
    /\ UNCHANGED <<calls, rows, workers>>

\* websocket_endpoint: the finally clause runs ws_manager.disconnect
RegDisconnect(s) ==
    /\ sock[s].st = "open"
    /\ active' = EndpointFinally(active, sock[s].tenant, s)
    /\ sock' = [sock EXCEPT ![s] = ClosedSock]
    /\ last' = RegRecord("disconnect", sock[s].tenant, s)
    /\ UNCHANGED <<calls, rows, workers>>

----------------------------------------------------------------------------
(* The webhook handlers as the vendor SDK sees them *)

\* the steps of handle_message and handle_status that can raise
HandlerSteps == {"session", "webhook_log", "contact_upsert", "save",
                 "status_update", "broadcast", "auto_reply", "final_commit"}

\* the steps that sit in a try/except of their own inside the with block
InnerTry == {"webhook_log", "contact_upsert", "save", "status_update",
             "broadcast", "auto_reply"}

\* the steps whose failure is injected (the others fail through the
\* persistence model)
InjectedSteps == {"session", "webhook_log", "contact_upsert", "broadcast",
                  "final_commit"}

\* the exceptions that leave the with block: get_db_session rolls back and
\* re-raises them
Escaped(raisedSteps) == raisedSteps \ InnerTry

\* (mutant) the handler body is not wrapped: what leaves the with block
\* reaches the SDK
OuterExcept_Missing(escaped) == IF escaped = {} THEN "returned" ELSE "raised"

\* the outermost `except Exception` of both handlers: log and return
OuterExcept(escaped) == "returned"

\* one message webhook given to handle_message by the SDK
MessageWebhook(phone, mid, isText, text, commitOk, replyOk, commitOk2, fails, view) ==
    LET noSession == "session" \in fails
        r == IF noSession
             THEN [rows |-> rows, res |-> NONE, commit |-> "none",
                   bcasts |-> <<>>]
             ELSE HandleMessageResult(rows, phone, mid, isText, text,
                                      commitOk, replyOk, commitOk2)
        body == phone # <<>>
        replying == body /\ isText /\ AutoReply(text) # NULL
        raisedSteps ==
            IF noSession THEN {"session"}
            ELSE (fails \cap (IF body THEN InjectedSteps ELSE {"final_commit"}))
                 \cup (IF r.res = RAISED THEN {"save"} ELSE {})
                 \cup (IF replying /\ (~replyOk \/ ~commitOk2)
                       THEN {"auto_reply"} ELSE {})
        sent == IF "broadcast" \in raisedSteps
                THEN SelectSeq(r.bcasts, LAMBDA e : e # "message_incoming")
                ELSE r.bcasts
    IN /\ Len(r.rows) <= MaxRows
       /\ rows' = r.rows
       /\ last' = Project([NoOp EXCEPT
                             !.op = "handle_message",
                             !.tenant = DEFAULT_TENANT_ID, !.mid = mid,
                             !.phone = FormatPhoneNumber(phone),
                             !.res = r.res, !.commit = r.commit,
                             !.changed = (r.rows # rows),
                             !.bcasts = sent,
                             !.raised = raisedSteps,
                             !.outcome = OuterExcept(Escaped(raisedSteps))],
                          view)
       /\ UNCHANGED <<active, sock, calls, workers>>

\* (mutant) only an applied status is broadcast
StatusBroadcast_OnlyWhenUpdated(res) ==
    IF res >= 1 THEN <<"message_status">> ELSE <<>>

\* handle_status: the broadcast that follows the update, whatever
\* update_message_status returned
StatusBroadcast(res) == <<"message_status">>

\* one status webhook given to handle_status by the SDK
StatusWebhook(mid, status, commitOk, pick, fails, view) ==
    /\ \/ pick \in Matches(rows, DEFAULT_TENANT_ID, mid)
       \/ pick = 0 /\ Matches(rows, DEFAULT_TENANT_ID, mid) = {}
    /\ LET noSession == "session" \in fails
           r == IF noSession THEN [rows |-> rows, res |-> NONE]
                ELSE UpdateMessageStatus(rows, DEFAULT_TENANT_ID, mid, status,
                                         commitOk, pick)
           raisedSteps == IF noSession THEN {"session"}
                          ELSE fails \cap (InjectedSteps \ {"contact_upsert"})
       IN /\ rows' = r.rows
          /\ last' = Project([NoOp EXCEPT
                                !.op = "handle_status",
                                !.tenant = DEFAULT_TENANT_ID, !.mid = mid,
                                !.status = status, !.res = r.res,
                                !.changed = (r.rows # rows),
                                !.bcasts = IF noSession
                                              \/ "broadcast" \in raisedSteps
                                           THEN <<>>
                                           ELSE StatusBroadcast(r.res),
                                !.raised = raisedSteps,
                                !.outcome = OuterExcept(Escaped(raisedSteps))],
                             view)
    /\ UNCHANGED <<active, sock, calls, workers>>

----------------------------------------------------------------------------
(* Concurrent _save_message calls, each on its own session: the lookup reads
   the committed rows, the commit inserts in one step and is checked against
   the committed rows by the unique constraint. *)

NumWorkers == 2
Workers == 1..NumWorkers

\* `raced`: the call found no row while another call for the same
\* (tenant_id, message_id) had done its lookup and not yet committed
IdleWorker == [pc |-> "idle", tenant |-> "t1", mid |-> NULL, dbOk |-> TRUE,
               res |-> NONE, raced |-> FALSE]

\* _save_message up to the result of the lookup
RaceLookup(w, t, mid, dbOk) ==
    /\ workers[w].pc = "idle"
    /\ \A v \in Workers : v < w => workers[v].pc # "idle"
    /\ LET existing == DedupLookup(rows, t, mid)
           rivals == {v \in Workers \ {w} :
                        /\ workers[v].pc = "looked"
                        /\ workers[v].tenant = t
                        /\ workers[v].mid = mid}
           me == [IdleWorker EXCEPT !.tenant = t, !.mid = mid, !.dbOk = dbOk]
       IN workers' =
            [v \in Workers |->
               IF v = w
               THEN IF existing # {}
                    THEN [me EXCEPT !.pc = "done",
                                    !.res = CHOOSE i \in existing : TRUE]
                    ELSE [me EXCEPT !.pc = "looked",
                                    !.raced = Truthy(mid) /\ rivals # {}]
               ELSE IF v \in rivals /\ existing = {} /\ Truthy(mid)
                    THEN [workers[v] EXCEPT !.raced = TRUE]
                    ELSE workers[v]]
    /\ UNCHANGED <<active, sock, calls, rows, last>>

\* _save_message from db.add to the return or the re-raise
RaceCommit(w) ==
    /\ workers[w].pc = "looked"
    /\ LET me == workers[w]
           r == InsertCommit(rows, MsgRow(me.tenant, me.mid,
                                          NormalizePhone(Phone1), "hi",
                                          "incoming"), me.dbOk)
       IN /\ Len(r.rows) <= MaxRows
          /\ rows' = r.rows
          /\ workers' = [workers EXCEPT ![w] = [me EXCEPT !.pc = "done",
                                                          !.res = r.res]]
    /\ UNCHANGED <<active, sock, calls, last>>

----------------------------------------------------------------------------
(* Specification of the registry and the bridge *)

Init ==
    /\ active = EmptyDict
    /\ sock = [s \in Sockets |-> [st |-> "new", tenant |-> "t1"]]
    /\ calls = [c \in Calls |-> IdleCall]
    /\ rows = <<>>
    /\ last = NoOp
    /\ workers = [w \in Workers |-> IdleWorker]

NextWS ==
    \/ \E s \in Sockets, t \in Tenants, ok \in BOOLEAN : Connect(s, t, ok)
    \/ \E s \in Sockets : EndpointExit(s)
    \/ \E c \in Calls, t \in Tenants, k \in Kinds, a \in BOOLEAN :
         NotifySync(c, t, k, a)
    \/ \E c \in Calls, t \in Tenants : NotifyAsync(c, t)
    \/ \E c \in Calls : PassStart(c)
    \/ \E c \in Calls, ws \in Sockets, ok \in BOOLEAN : PassSend(c, ws, ok)
    \/ \E c \in Calls : PassCleanup(c)
    \/ \E c \in Calls : PassDiscard(c)
    \/ \E c \in Calls : PassPop(c)
    \/ \E c \in Calls : CallResume(c)

SpecWS == Init /\ [][NextWS]_vars

ViewSave == {"op", "tenant", "mid", "res", "commit", "changed", "again",
             "prevRes"}

\* the direct saves, with every argument varied
NextSave ==
    \/ \E t \in Tenants, mid \in MsgIds, a \in Payloads, ok \in BOOLEAN :
         SaveIncoming(t, mid, a[1], a[2], ok, ViewSave)
    \/ \E t \in Tenants, mid \in MsgIds, a \in Payloads, ok \in BOOLEAN :
         SaveOutgoing(t, mid, a[1], a[2], ok, ViewSave)

SpecSave == Init /\ [][NextSave]_vars

ViewStatus == {"op", "tenant", "mid", "status", "oldStatus", "res", "hit",
               "changed"}

\* saves and status updates
NextStatus ==
    \/ \E t \in Tenants, mid \in MsgIds, ok \in BOOLEAN :
         SaveOutgoing(t, mid, Phone1, "hi", ok, {"op"})
    \/ \E t \in Tenants, mid \in MsgIds, st \in StatusUpdates,
          ok \in BOOLEAN, pick \in 0..MaxRows :
         UpdateStatus(t, mid, st, ok, pick, ViewStatus)

SpecStatus == Init /\ [][NextStatus]_vars

ViewHandler == {"op", "tenant", "mid", "phone", "res", "stored", "again",
                "prevStored", "bcasts"}

\* the webhooks delivered: an input the handler does not read on a path is
\* kept at one value (no sender: nothing else is read; not a text or
\* "/poll": no reply is saved; a failed reply: no second commit)
Webhooks ==
    {w \in [phone : {<<>>, Phone1, <<"+", "8">>}, mid : MsgIds,
            isText : BOOLEAN, text : Texts, commitOk : BOOLEAN,
            replyOk : BOOLEAN, commitOk2 : BOOLEAN] :
        /\ w.phone = <<>> =>
              w.isText /\ w.text = "hi" /\ w.commitOk /\ w.replyOk
        /\ (~w.isText \/ AutoReply(w.text) = NULL \/ w.phone = <<>>) =>
              w.replyOk
        /\ w.replyOk => w.commitOk2 \/ (w.isText /\ AutoReply(w.text) # NULL
                                          /\ w.phone # <<>>)
        /\ ~w.replyOk => w.commitOk2}

\* deliveries of message webhooks
NextHandler ==
    \E w \in Webhooks :
        HandleMessage(w.phone, w.mid, w.isText, w.text, w.commitOk,
                      w.replyOk, w.commitOk2, ViewHandler)

SpecHandler == Init /\ [][NextHandler]_vars

ViewDB == {"commit"}

\* the sends: without a client or when the vendor call raises, the commit
\* is not reached and its outcome is kept at one value
Sends ==
    {x \in [wa : BOOLEAN, vendor : VendorResults, commitOk : BOOLEAN] :
        /\ ~x.wa => x.vendor = NULL
        /\ x.vendor = "raise" => x.commitOk}

\* every operation on table "messages", called one after the other
NextDB ==
    \/ \E t \in Tenants, mid \in MsgIds, ok \in BOOLEAN :
         SaveIncoming(t, mid, Phone1, "hi", ok, ViewDB)
    \/ \E t \in Tenants, mid \in MsgIds, ok \in BOOLEAN :
         SaveOutgoing(t, mid, Phone1, "hi", ok, ViewDB)
    \/ \E t \in Tenants, x \in Sends :
         SendText(t, Phone1, "hi", x.wa, x.vendor, x.commitOk, ViewDB)
    \/ \E t \in Tenants, x \in Sends :
         SendTemplate(t, <<"+", "9">>, "APPROVED", x.wa, x.vendor,
                      x.commitOk, ViewDB)
    \/ \E t \in Tenants, tpl \in {"missing", "PENDING"} :
         SendTemplate(t, Phone1, tpl, TRUE, NULL, TRUE, ViewDB)
    \/ \E t \in Tenants, mid \in MsgIds, ok \in BOOLEAN, pick \in 0..MaxRows :
         UpdateStatus(t, mid, "read", ok, pick, ViewDB)
    \/ \E mid \in MsgIds, isText \in BOOLEAN, ok \in BOOLEAN, rok \in BOOLEAN :
         HandleMessage(Phone1, mid, isText, "hi", ok, rok, TRUE, ViewDB)

SpecDB == Init /\ [][NextDB]_vars

\* campaigns of one to MaxRecipients recipients; an input that a turn
\* does not read is kept at one value
NextCampaign ==
    \/ \E n \in 1..MaxRecipients, isTemplate \in BOOLEAN :
         CreateBroadcast(n, isTemplate)
    \/ \E x \in Sends : BroadcastText(x.wa, x.vendor, x.commitOk)
    \/ \E tpl \in {"APPROVED", "PENDING"}, x \in Sends, logOk \in BOOLEAN :
         /\ tpl # "APPROVED" => x.wa /\ x.vendor = NULL /\ logOk
         /\ BroadcastTemplate(tpl, x.wa, x.vendor, x.commitOk, logOk)
    \/ \E found \in BOOLEAN, ok \in BOOLEAN :
         /\ ~found => ok
         /\ BroadcastFinish(found, ok)

SpecCampaign == Init /\ [][NextCampaign]_vars

ViewSend == {"op", "tenant", "mid", "res", "commit", "changed", "vendor"}

\* send_text_message with every outcome of the vendor call and the commit
NextSend ==
    \E t \in Tenants, x \in Sends, a \in Payloads :
        SendText(t, a[1], a[2], x.wa, x.vendor, x.commitOk, ViewSend)

SpecSend == Init /\ [][NextSend]_vars

ViewRetry == {"op", "mid", "phone", "res", "commit", "stored", "again",
              "bcasts"}

\* deliveries and redeliveries of one text webhook; a failed reply leaves
\* its commit untried
NextRetry ==
    \E mid \in MsgIds, ok \in BOOLEAN, rok \in BOOLEAN, ok2 \in BOOLEAN :
        /\ ~rok => ok2
        /\ Redeliver(mid, ok, rok, ok2, ViewRetry)

SpecRetry == Init /\ [][NextRetry]_vars

ViewTenant == {"op", "tenant", "mid", "res", "commit", "hit", "foreign",
               "changed"}

\* saves by both tenants on a database that accepts every commit it can
NextTenant ==
    \/ \E t \in Tenants, mid \in MsgIds, a \in Payloads :
         SaveIncoming(t, mid, a[1], a[2], TRUE, ViewTenant)
    \/ \E t \in Tenants, mid \in MsgIds, a \in Payloads :
         SaveOutgoing(t, mid, a[1], a[2], TRUE, ViewTenant)

SpecTenant == Init /\ [][NextTenant]_vars

ViewValues == {"op", "mid", "status", "changed", "bcasts"}

\* rows written by the two places that construct a Message (_save_message
\* and _save_template_message), and status webhooks with every status the
\* SDK delivers
NextValues ==
    \/ \E mid \in MsgIds, ok \in BOOLEAN :
         SaveIncoming(DEFAULT_TENANT_ID, mid, Phone1, "hi", ok, {})
    \/ \E x \in Sends :
         SendTemplate(DEFAULT_TENANT_ID, Phone1, "APPROVED", x.wa, x.vendor,
                      x.commitOk, {})
    \/ \E mid \in MsgIds, st \in SdkStatuses, ok \in BOOLEAN,
          pick \in 0..MaxRows :
         StatusWebhook(mid, st, ok, pick, {}, ViewValues)

SpecValues == Init /\ [][NextValues]_vars

InitReg ==
    /\ active = EmptyDict
    /\ sock = [s \in RegSockets |-> [st |-> "new", tenant |-> "t1"]]
    /\ calls = [c \in Calls |-> IdleCall]
    /\ rows = <<>>
    /\ last = NoOp
    /\ workers = [w \in Workers |-> IdleWorker]

\* connections and disconnections only
NextReg ==
    \/ \E s \in RegSockets, t \in Tenants, ok \in BOOLEAN :
         RegConnect(s, t, ok)
    \/ \E s \in RegSockets : RegDisconnect(s)

SpecReg == InitReg /\ [][NextReg]_vars

\* the read loop of every connected client ends: the client disconnects
\* or receive_text raises
SpecEndpoint ==
    SpecReg /\ \A s \in RegSockets : WF_vars(RegDisconnect(s))

InitPhone ==
    /\ active = EmptyDict
    /\ sock = [s \in Sockets |-> [st |-> "new", tenant |-> "t1"]]
    /\ calls = [c \in Calls |-> IdleCall]
    /\ rows = <<>>
    /\ last \in {[NoOp EXCEPT !.phone = p] : p \in PhoneInputs}
    /\ workers = [w \in Workers |-> IdleWorker]

NextPhone == ApplyNormalize \/ ApplyFormat

SpecPhone == InitPhone /\ [][NextPhone]_vars

ViewTemplate == {"op", "tpl", "res", "changed", "sentWa", "usage", "logged"}

\* template sends
NextTemplate ==
    \E t \in Tenants, tpl \in TemplateStates, x \in Sends, logOk \in BOOLEAN :
        TemplateSend(t, Phone1, tpl, x.wa, x.vendor, x.commitOk, logOk,
                     ViewTemplate)

SpecTemplate == Init /\ [][NextTemplate]_vars

ViewAck == {"op", "raised", "outcome"}

\* webhooks as the SDK delivers them, with every step failing or not
NextAck ==
    \/ \E ph \in {<<>>, Phone1}, isText \in BOOLEAN, ok \in BOOLEAN,
          rok \in BOOLEAN, fails \in SUBSET InjectedSteps :
         MessageWebhook(ph, "wamid.A", isText, "hi", ok, rok, TRUE, fails,
                        ViewAck)
    \/ \E mid \in {NULL, "wamid.A"}, ok \in BOOLEAN, pick \in 0..MaxRows,
          fails \in SUBSET InjectedSteps :
         StatusWebhook(mid, "read", ok, pick, fails, ViewAck)

SpecAck == Init /\ [][NextAck]_vars

\* concurrent saves
NextRace ==
    \/ \E w \in Workers, t \in Tenants, mid \in MsgIds, ok \in BOOLEAN :
         RaceLookup(w, t, mid, ok)
    \/ \E w \in Workers : RaceCommit(w)

SpecRace == Init /\ [][NextRace]_vars

----------------------------------------------------------------------------
(* Claims about the registry and the bridge (SpecWS) *)

\* C1: a finished notify_clients pass for a tenant that had a registered
\* socket when it started has attempted send_json exactly once on each
\* socket registered then (and on no other), and no socket whose send
\* raised is registered under that tenant.
C1_BroadcastAttemptsAllAndDropsFailed ==
    \A c \in Calls :
        LET p == calls[c].pass
        IN (p.pc = "done" /\ p.atStart # {}) =>
              /\ \A s \in Sockets :
                    p.attempts[s] = IF s \in p.atStart THEN 1 ELSE 0
              /\ p.raised \cap ActiveGet(active, calls[c].tenant) = {}

\* C1 witness: a finished pass over two sockets, one send raised and the
\* other succeeded.
C1_Witness ==
    \E c \in Calls :
        LET p == calls[c].pass
        IN /\ p.pc = "done"
           /\ Cardinality(p.atStart) >= 2
           /\ p.raised # {}
           /\ p.atStart \ p.raised # {}

\* C8: notify_clients_sync never raises to its caller, whichever sockets
\* raise on send and whichever strategy is taken.
C8_SyncNeverRaises ==
    \A c \in Calls : calls[c].kind # "async" => calls[c].pc # "raised"

\* C8 witness: a notify_clients_sync call has returned although a send of
\* its broadcast raised.
C8_Witness ==
    \E c \in Calls :
        /\ calls[c].kind # "async"
        /\ calls[c].pc = "returned"
        /\ calls[c].pass.raised # {}

\* C9: one notify_clients_sync call starts the broadcast coroutine at most
\* once: the first strategy that succeeds is the only one used.
C9_AtMostOneDispatch ==
    \A c \in Calls : calls[c].started <= 1 /\ Len(calls[c].strat) <= 1

\* C9 witness: strategy 1 ran a pass over a registered socket to the end
\* and the call returned.
C9_Witness ==
    \E c \in Calls :
        /\ calls[c].strat = <<1>>
        /\ calls[c].pc = "returned"
        /\ calls[c].pass.pc = "done"
        /\ calls[c].pass.atStart # {}

----------------------------------------------------------------------------
(* Claims about the direct saves (SpecSave) *)

\* C2: a save that follows a save of the same tenant_id and the same
\* non-null message_id which returned a row returns that same row and
\* leaves the table as it was.
C2_SecondSaveReturnsSameRow ==
    (last.op \in SaveOps /\ last.again /\ last.mid # NULL) =>
        (last.res = last.prevRes /\ ~last.changed)

\* C10: when the commit of a save fails, the save raises and the table is
\* what it was before the save (the row added for the message is rolled
\* back).
C10_FailedCommitRollsBackAndRaises ==
    (last.op \in SaveOps /\ last.commit = "failed") =>
        (last.res = RAISED /\ ~last.changed)

\* C10 witness: the commit of a save failed on a table that holds another
\* row, the save raised and the tenant has no row for the message.
C10_Witness ==
    /\ last.op \in SaveOps
    /\ last.commit = "failed"
    /\ last.res = RAISED
    /\ Len(rows) >= 1
    /\ Matches(rows, last.tenant, last.mid) = {}

----------------------------------------------------------------------------
(* Claims about table "messages" under every operation (SpecDB) *)

\* C3: no two rows of one tenant carry the same non-null message_id.
C3_AtMostOneRowPerTenantAndId ==
    \A i, j \in 1..Len(rows) :
        (rows[i].mid # NULL /\ rows[i].mid = rows[j].mid
           /\ rows[i].tenant = rows[j].tenant) => i = j

\* C3 witness: the table holds an incoming row and a template row with
\* different message ids, and the last insert was refused.
C3_Witness ==
    /\ \E i, j \in 1..Len(rows) :
          /\ rows[i].mid # NULL /\ rows[j].mid # NULL
          /\ rows[i].mid # rows[j].mid
          /\ rows[i].dir = "incoming"
          /\ rows[j].text = "Template"
    /\ last.commit = "failed"

----------------------------------------------------------------------------
(* Claims about the webhook handler (SpecHandler) *)

\* C4: when handle_message is given a webhook again (same message_id, same
\* sender) right after the delivery that stored it, the tenant has exactly
\* one row with that message_id and its direction is "incoming".
C4_RetryKeepsOneIncomingRow ==
    (last.op = "handle_message" /\ last.again /\ last.prevStored
       /\ last.mid # NULL) =>
        LET m == Matches(rows, DEFAULT_TENANT_ID, last.mid)
        IN /\ Cardinality(m) = 1
           /\ \A i \in m : rows[i].dir = "incoming"

\* C4 witness: the second delivery of a text webhook whose first delivery
\* stored the message and its auto-reply.
C4_Witness ==
    /\ last.op = "handle_message"
    /\ last.again
    /\ last.prevStored
    /\ last.mid = "wamid.A"
    /\ last.res >= 1
    /\ \E i \in 1..Len(rows) :
          rows[i].dir = "outgoing" /\ rows[i].mid = NULL
             /\ rows[i].text = "hello"

----------------------------------------------------------------------------
(* Claims about concurrent saves (SpecRace) *)

RacedPairs ==
    {p \in Workers \X Workers :
        /\ p[1] # p[2]
        /\ workers[p[1]].pc = "done" /\ workers[p[2]].pc = "done"
        /\ workers[p[1]].raced /\ workers[p[2]].raced
        /\ workers[p[1]].tenant = workers[p[2]].tenant
        /\ workers[p[1]].mid = workers[p[2]].mid}

WithId(mid) == {i \in 1..Len(rows) : rows[i].mid = mid}

\* C5 (as stated): two saves of one (tenant_id, message_id) that both
\* passed the lookup before either committed end with two committed rows
\* for that message_id.
C5_RaceEndsWithDuplicate ==
    \A p \in RacedPairs :
        (workers[p[1]].dbOk /\ workers[p[2]].dbOk) =>
            Cardinality(Matches(rows, workers[p[1]].tenant,
                                workers[p[1]].mid)) >= 2

\* C5 (amended): two saves of one (tenant_id, message_id) can both pass the
\* lookup before either commits, but they never end with two committed
\* rows: at most one of them returns a row and the table holds at most one
\* row with that message_id; when neither commit fails for another reason
\* it holds exactly one and a save of the pair raised.
C5_RaceCommitsOneRow ==
    \A p \in RacedPairs :
        LET a == workers[p[1]]
            b == workers[p[2]]
        IN /\ Cardinality(WithId(a.mid)) <= 1
           /\ ~(a.res >= 1 /\ b.res >= 1)
           /\ (a.dbOk /\ b.dbOk) =>
                 /\ Cardinality(WithId(a.mid)) = 1
                 /\ a.res = RAISED \/ b.res = RAISED

\* C5 witness: both saves passed the lookup, the first commit stored the
\* row and the second was rejected and raised.
C5_Witness ==
    \E p \in RacedPairs :
        /\ workers[p[1]].dbOk /\ workers[p[2]].dbOk
        /\ workers[p[1]].res >= 1
        /\ workers[p[2]].res = RAISED

----------------------------------------------------------------------------
(* Claims about status updates (SpecStatus) *)

\* C6: update_message_status for a (tenant_id, message_id) that matches no
\* row returns None, does not raise and leaves the table unchanged.
C6_UnknownMessageIsNoOp ==
    (last.op = "update_status" /\ ~last.hit) =>
        (last.res = NONE /\ ~last.changed)

\* C6 witness: a status update for a message id the tenant does not have,
\* while another tenant has a row with that id.
C6_Witness ==
    /\ last.op = "update_status"
    /\ ~last.hit
    /\ last.res = NONE
    /\ \E i \in 1..Len(rows) : rows[i].mid = last.mid

\* C7: after an applied status update the stored status of the row is the
\* status of that call, whatever the status was before.
C7_LastStatusWins ==
    (last.op = "update_status" /\ last.res >= 1) =>
        rows[last.res].status = last.status

\* C7 witness: a row whose status was "read" has been set back to
\* "delivered".
C7_Witness ==
    /\ last.op = "update_status"
    /\ last.res >= 1
    /\ last.oldStatus = "read"
    /\ last.status = "delivered"
    /\ rows[last.res].status = "delivered"

----------------------------------------------------------------------------
(* Claims about the webhook handlers as the SDK sees them (SpecAck) *)

\* C11: handle_message and handle_status always return to the SDK: no
\* failure of a step, the final session commit included, reaches it.
C11_HandlersNeverRaise ==
    last.op \in {"handle_message", "handle_status"} =>
        last.outcome = "returned"

\* C11 witness: a message webhook whose save and whose final session commit
\* both failed has returned.
C11_Witness ==
    /\ last.op = "handle_message"
    /\ {"save", "final_commit"} \subseteq last.raised
    /\ last.outcome = "returned"

\* C18: a pass makes no second attempt on a socket, a finished pass has
\* made its attempt on every socket of its snapshot whichever sends raised,
\* and a step in which the pass attempts a send leaves the registry as it
\* is (the failed sockets are removed by the step after the last attempt).
C18_FailedSendDoesNotStopThePass ==
    /\ [](\A c \in Calls :
             LET p == calls[c].pass
             IN /\ \A s \in Sockets : p.attempts[s] <= 1
                /\ p.pc = "done" => \A s \in p.snap : p.attempts[s] = 1)
    /\ [][\A c \in Calls :
             calls'[c].pass.attempts # calls[c].pass.attempts =>
                 active' = active]_vars

\* C18 witness: a finished pass over two sockets in which both sends
\* raised: the second attempt was made after the first had failed.
C18_Witness ==
    \E c \in Calls :
        LET p == calls[c].pass
        IN /\ p.pc = "done"
           /\ Cardinality(p.snap) >= 2
           /\ p.raised = p.snap

----------------------------------------------------------------------------
(* Claims about connect and disconnect (SpecReg) *)

\* the (tenant, socket) pairs of a registry
Members(a) == {m \in Tenants \X RegSockets : m[2] \in ActiveGet(a, m[1])}

\* C12: connect and disconnect change the membership of their own socket
\* only, and after disconnect(T, s) followed by connect(T, s2) every
\* registration of a socket other than s that existed before the two calls
\* still exists.
C12_ReconnectKeepsOtherSockets ==
    /\ last.op \in {"connect", "disconnect"} =>
          \A m \in Tenants \X RegSockets :
              m[2] # last.ws => (m \in Members(last.before)
                                   <=> m \in Members(active))
    /\ (last.op = "connect" /\ last.prevOp = "disconnect"
          /\ last.prevTenant = last.tenant) =>
          \A m \in Members(last.before2) : m[2] # last.prevWs =>
              m \in Members(active)

\* C12 witness: a socket of a tenant was disconnected and another one
\* connected under the same tenant, while a third socket of that tenant
\* was registered all along.
C12_Witness ==
    /\ last.op = "connect" /\ last.prevOp = "disconnect"
    /\ last.prevTenant = last.tenant
    /\ last.prevWs \in ActiveGet(last.before2, last.tenant)
    /\ \E x \in RegSockets :
          /\ x \notin {last.ws, last.prevWs}
          /\ x \in ActiveGet(last.before2, last.tenant)
          /\ x \in ActiveGet(active, last.tenant)

----------------------------------------------------------------------------
(* More claims about the registry and the bridge (SpecWS) *)

\* C13: a broadcast for tenant T attempts a send only on sockets that were
\* registered under T when it started, and the steps that remove its stale
\* sockets leave the entry of every other tenant as it was.
C13_BroadcastIsTenantIsolated ==
    /\ [](\A c \in Calls : \A s \in Sockets :
             calls[c].pass.attempts[s] >= 1 => s \in calls[c].pass.atStart)
    /\ [][\A c \in Calls :
             (/\ calls[c].pass.pc \in {"run", "popping"}
              /\ calls'[c].pass.pc # calls[c].pass.pc) =>
                 \A t \in Tenants \ {calls[c].tenant} :
                     /\ ActiveGet(active', t) = ActiveGet(active, t)
                     /\ (t \in DOMAIN active') <=> (t \in DOMAIN active)]_vars

\* C13 witness: a finished broadcast in which a send raised, while a socket
\* registered under another tenant got no send attempt and is still
\* registered.
C13_Witness ==
    \E c \in Calls : \E s \in Sockets : \E t \in Tenants :
        /\ calls[c].pass.pc = "done"
        /\ calls[c].pass.raised # {}
        /\ t # calls[c].tenant
        /\ s \in ActiveGet(active, t)
        /\ calls[c].pass.attempts[s] = 0

\* C14: a socket is registered under at most one tenant.
C14_SocketHasOneTenant ==
    \A s \in Sockets :
        Cardinality({t \in DOMAIN active : s \in active[t]}) <= 1

\* C14 witness: two sockets are registered, each under its own tenant.
C14_Witness ==
    \E s1, s2 \in Sockets :
        /\ s1 \in ActiveGet(active, "t1") /\ s1 \notin ActiveGet(active, "t2")
        /\ s2 \in ActiveGet(active, "t2") /\ s2 \notin ActiveGet(active, "t1")

\* a stale removal running on a thread of its own has emptied a tenant's
\* set and has not yet executed its pop
MidRemoval == \E c \in Calls : calls[c].pass.pc = "popping"

\* C15: once every connect, disconnect and stale removal that was started
\* has run to its end, every tenant key of the registry maps to a
\* non-empty set.
C15_NoEmptyTenantEntry ==
    ~MidRemoval => \A t \in DOMAIN active : active[t] # {}

\* C15 witness: a broadcast found every socket of its tenant stale and its
\* cleanup dropped the tenant's entry while their endpoints were still
\* running.
C15_Witness ==
    \E c \in Calls :
        LET p == calls[c].pass
        IN /\ p.pc = "done"
           /\ p.atStart # {}
           /\ p.stale = p.atStart
           /\ \A s \in p.stale : sock[s].st = "open"
           /\ calls[c].tenant \notin DOMAIN active

----------------------------------------------------------------------------
(* Claims about phone normalization (SpecPhone) *)

Converted == last.op \in {"normalize", "normalize_twice", "format",
                          "format_twice"}

Twice == last.op \in {"normalize_twice", "format_twice"}

StartsWithPlus(p) == p # <<>> /\ p[1] = "+"

\* C16 (as stated): normalization is idempotent, an input that starts with
\* '+' is returned unchanged, and any other non-empty input yields '+'
\* followed by the whitespace-stripped input.
C16_NormalizeAsStated ==
    /\ Twice => last.out2 = last.out
    /\ (Converted /\ StartsWithPlus(last.phone)) => last.out = last.phone
    /\ (Converted /\ last.phone # <<>> /\ ~StartsWithPlus(last.phone)) =>
          last.out = <<"+">> \o Strip(last.phone)

\* C16 (amended): normalization is idempotent; the empty input is returned
\* as it is; an input whose whitespace-stripped form starts with '+' yields
\* that stripped form (the input itself when it has no surrounding
\* whitespace); any other non-empty input yields '+' followed by the
\* whitespace-stripped input.
C16_NormalizeStripsFirst ==
    /\ Twice => last.out2 = last.out
    /\ (Converted /\ last.phone = <<>>) => last.out = <<>>
    /\ (Converted /\ StartsWithPlus(Strip(last.phone))) =>
          /\ last.out = Strip(last.phone)
          /\ (last.phone[1] # " " /\ last.phone[Len(last.phone)] # " ") =>
                last.out = last.phone
    /\ (Converted /\ last.phone # <<>> /\ ~StartsWithPlus(Strip(last.phone)))
          => last.out = <<"+">> \o Strip(last.phone)

\* C16 witness: " 9 " was normalized to "+9" and normalizing "+9" again
\* gave "+9".
C16_Witness ==
    /\ last.op = "normalize_twice"
    /\ last.phone = <<" ", "9", " ">>
    /\ last.out = <<"+", "9">>
    /\ last.out2 = <<"+", "9">>

----------------------------------------------------------------------------
(* Claims about template sends (SpecTemplate) *)

\* C17: send_template for a template that is missing or not APPROVED fails
\* with an error, calls the vendor for nothing and writes no message row,
\* no send log and no usage_count change.
C17_OnlyApprovedTemplatesAreSent ==
    (last.op = "send_template" /\ last.tpl # "APPROVED") =>
        /\ last.res = RAISED
        /\ ~last.sentWa
        /\ ~last.changed
        /\ ~last.logged
        /\ last.usage = 0

\* C17 witness: a PAUSED template was refused after an approved one had
\* been sent and stored.
C17_Witness ==
    /\ last.op = "send_template"
    /\ last.tpl = "PAUSED"
    /\ last.res = RAISED
    /\ \E i \in 1..Len(rows) : rows[i].text = "Template"

\* a broadcast of call c has begun to remove its stale sockets from the
\* registry
Removing(c) ==
    /\ calls[c].pass.pc \in {"popping", "done"}
    /\ calls[c].pass.stale # {}

\* C19: whichever strategy dispatched it, a broadcast removes its stale
\* sockets on the event loop thread, and no removal is part-way while the
\* event loop can run connect or disconnect.
C19_RegistryMutationsOnEventLoop ==
    /\ \A c \in Calls : Removing(c) => PassThread(calls[c]) = "event_loop"
    /\ ~MidRemoval

\* the strategy that started the coroutine of a call, 0 when there is none
StrategyOf(call) ==
    IF call.strat = <<>> THEN 0 ELSE call.strat[Len(call.strat)]

\* C20: a call that went through strategy 1 has returned only if its
\* broadcast has finished; a call that went through strategy 2 or 3 has
\* returned as soon as its broadcast exists, whatever the broadcast's
\* progress.
C20_OnlyStrategy1Waits ==
    \A c \in Calls :
        LET call == calls[c]
        IN /\ (StrategyOf(call) = 1 /\ call.pc = "returned") =>
                  call.pass.pc = "done"
           /\ (StrategyOf(call) = 1 /\ call.pass.pc # "done") =>
                  call.pc = "blocked"
           /\ StrategyOf(call) \in {2, 3} => call.pc = "returned"

\* C20 witness: a call that took strategy 3 has returned while its
\* broadcast still has a socket to send to.
C20_Witness ==
    \E c \in Calls :
        /\ StrategyOf(calls[c]) = 3
        /\ calls[c].pc = "returned"
        /\ calls[c].pass.pc = "run"
        /\ calls[c].pass.todo # {}

----------------------------------------------------------------------------
(* Claims about the stored rows and the paths that write them *)

\* C21: every stored message row has a phone that starts with '+',
\* whichever operation stored it.
C21_EveryStoredPhoneHasPlus ==
    \A i \in 1..Len(rows) : StartsWithPlus(rows[i].phone)

C23_SameIdUnderAnotherTenantIsSaved ==
    (last.op \in SaveOps /\ Truthy(last.mid) /\ last.foreign /\ ~last.hit) =>
        /\ last.res >= 1
        /\ last.commit = "ok"
        /\ Matches(rows, last.tenant, last.mid) # {}

\* the sockets a registry holds, under whatever tenant
Registered(a) == UNION {ActiveGet(a, t) : t \in Tenants}

C25_BroadcastWorksOnSnapshot ==
    /\ \A c \in Calls : \A s \in Sockets :
          calls[c].pass.attempts[s] >= 1 => s \in calls[c].pass.atStart
    /\ \A s \in Sockets : sock[s].st = "closed" => s \notin Registered(active)
    /\ \A s \in Sockets :
          (sock[s].st = "open" /\ \A c \in Calls : s \notin calls[c].pass.stale)
              => s \in ActiveGet(active, sock[s].tenant)

\* the number of events e in a sequence of broadcasts
CountOf(bs, e) == Cardinality({i \in 1..Len(bs) : bs[i] = e})

\* C26: every delivery of a message webhook that carries a sender phone
\* dispatches exactly one message_incoming broadcast, whether the message
\* was inserted, was found stored already, or could not be saved.
C26_EveryDeliveryIsBroadcastOnce ==
    (last.op = "handle_message" /\ last.phone # <<>>) =>
        CountOf(last.bcasts, "message_incoming") = 1

\* C26 witness: the retry of a delivery whose message is stored inserted
\* no row for it and was broadcast.
C26_Witness ==
    /\ last.op = "handle_message"
    /\ last.again /\ Truthy(last.mid)
    /\ last.res >= 1 /\ ~last.stored
    /\ Cardinality(Matches(rows, last.tenant, last.mid)) = 1
    /\ CountOf(last.bcasts, "message_incoming") = 1

\* the rows of the auto-replies saved so far
ReplyRows(rs) ==
    {i \in 1..Len(rs) : rs[i].dir = "outgoing" /\ rs[i].mid = NULL}

\* C27: a delivery whose message_id is None inserts its incoming row
\* whenever the commit goes through; every delivery whose auto-reply was
\* saved adds one auto-reply row with message_id None; and the retry of a
\* stored message with a saved auto-reply adds that row and no other, the
\* incoming row staying single.
C27_NullIdsAreNeverDeduplicated ==
    [][last'.op = "handle_message" =>
         /\ (last'.mid = NULL /\ last'.commit # "failed") =>
               (last'.stored /\ Len(rows') > Len(rows))
         /\ CountOf(last'.bcasts, "message_outgoing") = 1 =>
               Cardinality(ReplyRows(rows')) = Cardinality(ReplyRows(rows)) + 1
         /\ (/\ last'.again /\ Truthy(last'.mid)
             /\ CountOf(last'.bcasts, "message_outgoing") = 1) =>
               /\ Len(rows') = Len(rows) + 1
               /\ Cardinality(Matches(rows', DEFAULT_TENANT_ID, last'.mid)) = 1]_vars

\* C27 witness: a stored message was delivered again; it has one incoming
\* row and two auto-reply rows.
C27_Witness ==
    /\ last.op = "handle_message"
    /\ last.again /\ Truthy(last.mid)
    /\ CountOf(last.bcasts, "message_outgoing") = 1
    /\ Cardinality(Matches(rows, DEFAULT_TENANT_ID, last.mid)) = 1
    /\ Cardinality(ReplyRows(rows)) = 2

\* C28: a status webhook for a message_id the tenant has no row for
\* leaves the table as it is and is broadcast; a row inserted for that
\* message_id right after it is stored with status 'sent'.
C28_EarlyStatusIsDropped ==
    /\ [][(/\ last'.op = "handle_status"
            /\ Matches(rows, DEFAULT_TENANT_ID, last'.mid) = {}) =>
              (rows' = rows /\ last'.bcasts = <<"message_status">>)]_vars
    /\ [][(/\ last.op = "handle_status" /\ ~last.changed
            /\ Len(rows') > Len(rows)
            /\ rows'[Len(rows')].mid = last.mid) =>
              rows'[Len(rows')].status = "sent"]_vars

\* C28 witness: a 'read' status for a message id without a row has been
\* broadcast and has left the table, which holds a row of another
\* message, as it was.
C28_Witness ==
    /\ last.op = "handle_status"
    /\ last.status = "read"
    /\ Truthy(last.mid)
    /\ ~last.changed
    /\ last.bcasts = <<"message_status">>
    /\ Matches(rows, DEFAULT_TENANT_ID, last.mid) = {}
    /\ rows # <<>>

\* C29: with a client configured, a send whose vendor call raises raises
\* to its caller and leaves the table as it was; a send that stored a row
\* did so after its vendor call had returned.
C29_FailedSendStoresNothing ==
    /\ [][(last'.op = "send_text" /\ last'.vendor = "raised") =>
             (rows' = rows /\ last'.res = RAISED)]_vars
    /\ [][(last'.op = "send_text" /\ rows' # rows) =>
             last'.vendor \in {"returned", "no_client"}]_vars

\* C29 witness: the vendor call of a send raised; the send raised and the
\* table still holds just the row of an earlier send.
C29_Witness ==
    /\ last.op = "send_text"
    /\ last.vendor = "raised"
    /\ last.res = RAISED
    /\ ~last.changed
    /\ Len(rows) = 1

====
